---- MODULE Spec2Model ----
(***************************************************************************)
(* Model of the MRI head-motion tracker: the manual single-marker loop of  *)
(* motion_tracker.py and the dual-marker loop of qr_tracker.py.            *)
(*                                                                         *)
(* Units.  Time is counted in tenths of a second (1.0 s = 10), physical    *)
(* length in tenths of a millimetre (2.5 mm = 25, 38.1 mm = 381), pixel    *)
(* coordinates are the integers the detector returns (astype(int)).        *)
(* A Python value that may be None is a tuple: <<>> is None, <<v>> or      *)
(* <<x, y>> is the value.  pixels_per_mm is the exact fraction             *)
(* <<pixel_width, 381>>, in pixels per tenth of a millimetre.  The floats  *)
(* of the source are replaced by exact rational arithmetic: distances are  *)
(* compared on their squares.                                              *)
(***************************************************************************)
EXTENDS Integers, Sequences, FiniteSets, TLC

\* ---------------------------------------------------------------- constants
\* 1.5 in * 2.54 = 3.81 cm, in tenths of a millimetre; 2.5 mm; 1.0 s; the
\* literals 0.5 and 3.0 of update_position_history; the 10 px of the
\* re-acquisition test; deque(maxlen=100).
KNOWN_QR_CODE_WIDTH_CM == 381
MOVEMENT_THRESHOLD_MM == 25
STILL_TIME_THRESHOLD == 10
HISTORY_WINDOW == 5
HISTORY_RETENTION == 30
REACQUIRE_PIXELS == 10
HISTORY_MAXLEN == 100
TARGET_QR_DATA == "MRI_HEAD_MOTION_TRACKER_V1.0"
CENTER_QR_DATA == "MRI_CENTER_LOC"

\* ------------------------------------------------------------------- bounds
MaxTime == 40
MaxHist == 2
MaxFineTime == 14
MaxFineHist == 4
MaxAnyHist == 3

\* Time between two successive frame timestamps, and the amount by which a
\* later time.time() reading of the same iteration exceeds the earlier one.
Deltas == {5, 10}
FineDeltas == {2, 3}
Skews == {0, 5}

\* Pixel positions the detector reports.  Distances: (0,0)-(6,8) = 10,
\* (6,8)-(12,16) = 10, (0,0)-(12,16) = 20, (0,0)-(15,20) = 25,
\* (15,20)-(30,40) = 25, (0,0)-(30,40) = 50.
CenterPositions == {<<0, 0>>, <<6, 8>>, <<12, 16>>}
TargetPositions == {<<0, 0>>, <<15, 20>>, <<30, 40>>}
Widths == {0, 381}

None == <<>>

VARIABLES mode, pc, clock, current_time, qr_codes, data, center, key,
          found_target_qr, found_center_qr, current_center_pixel,
          center_pixel, is_center_set, pixels_per_mm,
          position_history, last_movement_time, status, log,
          displacement

vars == <<mode, pc, clock, current_time, qr_codes, data, center, key,
          found_target_qr, found_center_qr, current_center_pixel,
          center_pixel, is_center_set, pixels_per_mm,
          position_history, last_movement_time, status, log,
          displacement>>

\* ------------------------------------------------------------ pure helpers
Sq(x) == x * x

\* Square of the Euclidean pixel distance between two points.
Dist2(p, q) == Sq(p[1] - q[1]) + Sq(p[2] - q[2])

RECURSIVE SumX(_)
SumX(s) == IF s = <<>> THEN 0 ELSE Head(s).pos[1] + SumX(Tail(s))

RECURSIVE SumY(_)
SumY(s) == IF s = <<>> THEN 0 ELSE Head(s).pos[2] + SumY(Tail(s))

\* Variant: the window is the whole retention period.
recent_positions_retained(h, t) ==
    SelectSeq(h, LAMBDA s : t - s.ts <= HISTORY_RETENTION)

\* recent_positions: the stored samples not older than the smoothing window.
recent_positions(h, t) == SelectSeq(h, LAMBDA s : t - s.ts <= HISTORY_WINDOW)

\* Variant: a distance equal to the threshold counts as movement.
MovedBeyondThresholdInclusive(rec, p, ppm) ==
    LET n == Len(rec)
        D == Sq(n * p[1] - SumX(rec)) + Sq(n * p[2] - SumY(rec))
    IN  D >= (Sq(MOVEMENT_THRESHOLD_MM * n * ppm[1]) \div Sq(ppm[2]))

\* distance_mm > MOVEMENT_THRESHOLD_MM for the distance between p and the mean
\* of the n samples of rec.  With avg = (sx/n, sy/n) the squared pixel distance
\* is D/n^2, D = (n*px - sx)^2 + (n*py - sy)^2, and distance_mm =
\* distance_pixels * den / num; both sides are squared and the division is
\* the floor, which decides the strict comparison of integers exactly.
MovedBeyondThreshold(rec, p, ppm) ==
    LET n == Len(rec)
        D == Sq(n * p[1] - SumX(rec)) + Sq(n * p[2] - SumY(rec))
    IN  D > (Sq(MOVEMENT_THRESHOLD_MM * n * ppm[1]) \div Sq(ppm[2]))

\* Variant: an "if" in place of the "while", at most one sample is dropped.
EvictOnce(h, t) ==
    IF h # <<>> /\ t - Head(h).ts > HISTORY_RETENTION THEN Tail(h) ELSE h

\* Variant: samples are dropped only when older than the retention period
\* plus one smoothing window.
RECURSIVE EvictLate(_, _)
EvictLate(h, t) ==
    IF h # <<>> /\ t - Head(h).ts > HISTORY_RETENTION + HISTORY_WINDOW
    THEN EvictLate(Tail(h), t)
    ELSE h

RECURSIVE Evict(_, _)
Evict(h, t) ==
    IF h # <<>> /\ t - Head(h).ts > HISTORY_RETENTION
    THEN Evict(Tail(h), t)
    ELSE h

\* deque(maxlen=100).append
DequeAppend(h, s) ==
    IF Len(h) = HISTORY_MAXLEN THEN Append(Tail(h), s) ELSE Append(h, s)

\* Variant: the first sample is recorded without touching
\* last_movement_time.
update_position_history_first_kept(h, lmt, ppm, p, t) ==
    IF Len(h) = 0
    THEN [hist |-> <<[pos |-> p, ts |-> t]>>, lmt |-> lmt]
    ELSE LET rec == recent_positions(h, t)
             moved == /\ rec # <<>>
                      /\ ppm # None
                      /\ ppm[1] > 0
                      /\ MovedBeyondThreshold(rec, p, ppm)
         IN  [hist |-> Evict(DequeAppend(h, [pos |-> p, ts |-> t]), t),
              lmt  |-> IF moved THEN <<t>> ELSE lmt]

\* Variant: without calibration the sample is not recorded.
update_position_history_uncalibrated_skips(h, lmt, ppm, p, t) ==
    IF Len(h) = 0
    THEN [hist |-> <<[pos |-> p, ts |-> t]>>, lmt |-> <<t>>]
    ELSE IF ppm = None
    THEN [hist |-> h, lmt |-> lmt]
    ELSE LET rec == recent_positions(h, t)
             moved == /\ rec # <<>>
                      /\ ppm[1] > 0
                      /\ MovedBeyondThreshold(rec, p, ppm)
         IN  [hist |-> Evict(DequeAppend(h, [pos |-> p, ts |-> t]), t),
              lmt  |-> IF moved THEN <<t>> ELSE lmt]

\* Variant: a sample that finds no stored sample inside the smoothing
\* window counts as movement.
update_position_history_gap_moves(h, lmt, ppm, p, t) ==
    IF Len(h) = 0
    THEN [hist |-> <<[pos |-> p, ts |-> t]>>, lmt |-> <<t>>]
    ELSE LET rec == recent_positions(h, t)
             moved == \/ rec = <<>>
                      \/ /\ ppm # None
                         /\ ppm[1] > 0
                         /\ MovedBeyondThreshold(rec, p, ppm)
         IN  [hist |-> Evict(DequeAppend(h, [pos |-> p, ts |-> t]), t),
              lmt  |-> IF moved THEN <<t>> ELSE lmt]

\* update_position_history: the new (position_history, last_movement_time).
update_position_history(h, lmt, ppm, p, t) ==
    IF Len(h) = 0
    THEN [hist |-> <<[pos |-> p, ts |-> t]>>, lmt |-> <<t>>]
    ELSE LET rec == recent_positions(h, t)
             moved == /\ rec # <<>>
                      /\ ppm # None
                      /\ ppm[1] > 0
                      /\ MovedBeyondThreshold(rec, p, ppm)
         IN  [hist |-> Evict(DequeAppend(h, [pos |-> p, ts |-> t]), t),
              lmt  |-> IF moved THEN <<t>> ELSE lmt]

\* Variant: strictly more than the threshold.
is_qr_still_strict(t, lmt) ==
    IF lmt = None THEN FALSE ELSE t - lmt[1] > STILL_TIME_THRESHOLD

is_qr_still(t, lmt) ==
    IF lmt = None THEN FALSE ELSE t - lmt[1] >= STILL_TIME_THRESHOLD

\* Variant: calculate_displacement without the test for a zero scale.
calculate_displacement_nonzero(p, ref, isset, ppm) ==
    IF ~isset \/ ppm = None
    THEN [total_sq |-> <<0, 1>>, dx |-> <<0, 1>>, dy |-> <<0, 1>>]
    ELSE [total_sq |-> <<Dist2(p, ref) * Sq(ppm[2]), Sq(ppm[1])>>,
          dx |-> <<(p[1] - ref[1]) * ppm[2], ppm[1]>>,
          dy |-> <<(p[2] - ref[2]) * ppm[2], ppm[1]>>]

\* calculate_displacement: total is kept as the fraction of its square,
\* dx and dy as fractions, all in tenths of a millimetre.
calculate_displacement(p, ref, isset, ppm) ==
    IF ~isset \/ ppm = None \/ ppm[1] = 0
    THEN [total_sq |-> <<0, 1>>, dx |-> <<0, 1>>, dy |-> <<0, 1>>]
    ELSE [total_sq |-> <<Dist2(p, ref) * Sq(ppm[2]), Sq(ppm[1])>>,
          dx |-> <<(p[1] - ref[1]) * ppm[2], ppm[1]>>,
          dy |-> <<(p[2] - ref[2]) * ppm[2], ppm[1]>>]

\* Variant: strictly less than the threshold.
is_qr_centered_strict(total_sq) ==
    total_sq[1] < Sq(MOVEMENT_THRESHOLD_MM) * total_sq[2]

\* is_qr_centered: total_distance_mm <= MOVEMENT_THRESHOLD_MM, on squares.
is_qr_centered(total_sq) ==
    total_sq[1] <= Sq(MOVEMENT_THRESHOLD_MM) * total_sq[2]

\* Variant: calibration without the test for a positive pixel width.
CalibrateAnyWidth(ppm, pw) == <<pw, KNOWN_QR_CODE_WIDTH_CM>>

\* Calibrator: pixel_width / (KNOWN_QR_CODE_WIDTH_CM * 10)
Calibrate(ppm, pw) == IF pw > 0 THEN <<pw, KNOWN_QR_CODE_WIDTH_CM>> ELSE ppm

\* Variant: the boundary distance re-acquires as well.
NeedsReacquireInclusive(isset, ref, c) ==
    ~isset \/ (isset /\ Dist2(c, ref) >= Sq(REACQUIRE_PIXELS))

\* Variant: the reference is acquired once and never re-acquired.
NeedsReacquireUnsetOnly(isset, ref, c) == ~isset

\* The dual re-acquisition test of qr_tracker.py.
NeedsReacquire(isset, ref, c) ==
    ~isset \/ (isset /\ Dist2(c, ref) > Sq(REACQUIRE_PIXELS))

\* ------------------------------------------------------------- detections
TargetMarkers ==
    {[data |-> TARGET_QR_DATA, center |-> p, pixel_width |-> w] :
        p \in TargetPositions, w \in Widths}

CenterMarkers ==
    {[data |-> CENTER_QR_DATA, center |-> p, pixel_width |-> 381] :
        p \in CenterPositions}

\* What detectAndDecode / detectAndDecodeMulti may return for one frame.
Detections(m) ==
    IF m = "manual"
    THEN {<<>>} \cup {<<t>> : t \in TargetMarkers}
    ELSE {<<>>} \cup {<<t>> : t \in TargetMarkers}
                \cup {<<c>> : c \in CenterMarkers}
                \cup {<<c, t>> : c \in CenterMarkers, t \in TargetMarkers}
                \cup {<<t, c>> : c \in CenterMarkers, t \in TargetMarkers}

\* ------------------------------------------------------------------- Init
Init ==
    /\ mode \in {"manual", "dual"}
    /\ pc = "frame"
    /\ clock = 0
    /\ current_time = 0
    /\ qr_codes = <<>>
    /\ data = ""
    /\ center = None
    /\ key = ""
    /\ found_target_qr = FALSE
    /\ found_center_qr = FALSE
    /\ current_center_pixel = None
    /\ center_pixel = None
    /\ is_center_set = FALSE
    /\ pixels_per_mm = None
    /\ position_history = <<>>
    /\ last_movement_time = None
    /\ status = None
    /\ log = ""
    /\ displacement = None

\* ---------------------------------------------------------------- actions
\* cap.read(), time.time() and the detector: the start of a loop iteration.
\* D is the set of possible gaps to the previous clock reading, T the horizon.
\* The locals data, center and key are dead once the iteration is over and
\* are cleared here.
ReadFrameAt(D, T) ==
    /\ pc = "frame"
    /\ \E d \in D, codes \in Detections(mode) :
          /\ clock + d <= T
          /\ clock' = clock + d
          /\ current_time' = clock + d
          /\ qr_codes' = codes
          /\ pc' = IF codes = <<>> THEN "key" ELSE "loop"
    /\ found_target_qr' = FALSE
    /\ found_center_qr' = FALSE
    /\ current_center_pixel' = None
    /\ status' = None
    /\ log' = ""
    /\ data' = ""
    /\ center' = None
    /\ key' = ""
    /\ displacement' = None
    /\ UNCHANGED <<mode, center_pixel, is_center_set, pixels_per_mm,
                   position_history, last_movement_time>>

ReadFrame == ReadFrameAt(Deltas, MaxTime)

ReadFrameFine == ReadFrameAt(FineDeltas, MaxFineTime)

\* The loop body for a code carrying CENTER_QR_DATA (dual-marker mode).
HandleCenterQR ==
    /\ pc = "loop"
    /\ Head(qr_codes).data = CENTER_QR_DATA
    /\ LET qr == Head(qr_codes) IN
          /\ data' = qr.data
          /\ center' = qr.center
          /\ found_center_qr' = TRUE
          /\ IF NeedsReacquire(is_center_set, center_pixel, qr.center)
             THEN \E k \in Skews :
                     /\ clock' = clock + k
                     /\ center_pixel' = qr.center
                     /\ is_center_set' = TRUE
                     /\ last_movement_time' = <<clock + k>>
                     /\ position_history' = <<>>
                     /\ log' = "Center automatically set"
             ELSE /\ UNCHANGED <<clock, center_pixel, is_center_set,
                                 last_movement_time, position_history>>
                  /\ log' = ""
    /\ qr_codes' = Tail(qr_codes)
    /\ pc' = IF Tail(qr_codes) = <<>> THEN "key" ELSE "loop"
    /\ UNCHANGED <<mode, current_time, key, found_target_qr,
                   current_center_pixel, pixels_per_mm, status,
                   displacement>>

\* Variant: the status is drawn for every detected target.
ShowsStatusAlways(isset) == TRUE

\* `if is_center_set:` around the displacement and status display.
ShowsStatus(isset) == isset

\* The processing of a code carrying TARGET_QR_DATA (both modes); maxh bounds
\* the length of the history the model follows.
HandleTarget(maxh) ==
    /\ pc = "loop"
    /\ Head(qr_codes).data = TARGET_QR_DATA
    /\ LET qr  == Head(qr_codes)
           ppm == Calibrate(pixels_per_mm, qr.pixel_width)
           r   == update_position_history(position_history,
                      last_movement_time, ppm, qr.center, current_time)
           d   == calculate_displacement(qr.center, center_pixel,
                                         is_center_set, ppm)
       IN /\ Len(r.hist) <= maxh
          /\ data' = qr.data
          /\ center' = qr.center
          /\ found_target_qr' = TRUE
          /\ current_center_pixel' = qr.center
          /\ pixels_per_mm' = ppm
          /\ position_history' = r.hist
          /\ last_movement_time' = r.lmt
          /\ status' = IF ShowsStatus(is_center_set)
                       THEN <<[still |-> is_qr_still(current_time, r.lmt),
                               centered |-> is_qr_centered(d.total_sq)]>>
                       ELSE status
          /\ displacement' = IF ShowsStatus(is_center_set)
                             THEN <<d>>
                             ELSE displacement
    /\ qr_codes' = Tail(qr_codes)
    /\ pc' = IF Tail(qr_codes) = <<>> THEN "key" ELSE "loop"
    /\ log' = ""
    /\ UNCHANGED <<mode, clock, current_time, key, found_center_qr,
                   center_pixel, is_center_set>>

HandleTargetQR == HandleTarget(MaxHist)

HandleTargetQRFine == HandleTarget(MaxFineHist)

\* cv2.waitKey returned no key, or a key the loop does not handle.
KeyNone ==
    /\ pc = "key"
    /\ pc' = "frame"
    /\ key' = ""
    /\ log' = ""
    /\ UNCHANGED <<mode, clock, current_time, qr_codes, data, center,
                   found_target_qr, found_center_qr,
                   current_center_pixel, center_pixel, is_center_set,
                   pixels_per_mm, position_history, last_movement_time,
                   status,
                   displacement>>

\* Variant: SetCenter is accepted whatever the frame showed.
CanSetCenterAlways(found) == TRUE

\* The test that guards SetCenter.
CanSetCenter(found) == found

\* Variant: SetCenter that leaves the stored samples in place.
KeyCKeepsHistory ==
    /\ pc = "key"
    /\ mode = "manual"
    /\ pc' = "frame"
    /\ key' = "c"
    /\ IF CanSetCenter(found_target_qr)
       THEN \E k \in Skews :
               /\ clock' = clock + k
               /\ center_pixel' = current_center_pixel
               /\ is_center_set' = TRUE
               /\ last_movement_time' = <<clock + k>>
               /\ position_history' = position_history
               /\ log' = "Center set"
       ELSE /\ log' = "Warning: Cannot set center"
            /\ UNCHANGED <<clock, center_pixel, is_center_set,
                           last_movement_time, position_history>>
    /\ UNCHANGED <<mode, current_time, qr_codes, data, center,
                   found_target_qr, found_center_qr, current_center_pixel,
                   pixels_per_mm, status, displacement>>

\* 'c' in motion_tracker.py: SetCenter.
KeyC ==
    /\ pc = "key"
    /\ mode = "manual"
    /\ pc' = "frame"
    /\ key' = "c"
    /\ IF CanSetCenter(found_target_qr)
       THEN \E k \in Skews :
               /\ clock' = clock + k
               /\ center_pixel' = current_center_pixel
               /\ is_center_set' = TRUE
               /\ last_movement_time' = <<clock + k>>
               /\ position_history' = <<>>
               /\ log' = "Center set"
       ELSE /\ log' = "Warning: Cannot set center"
            /\ UNCHANGED <<clock, center_pixel, is_center_set,
                           last_movement_time, position_history>>
    /\ UNCHANGED <<mode, current_time, qr_codes, data, center,
                   found_target_qr, found_center_qr, current_center_pixel,
                   pixels_per_mm, status,
                   displacement>>

\* A key pressed that the running loop has no branch for: 'r' in
\* motion_tracker.py (its loop tests 'q' and 'c' only), 'c' in qr_tracker.py
\* (its loop tests 'q' and 'r' only).
KeyOther ==
    /\ pc = "key"
    /\ pc' = "frame"
    /\ key' = IF mode = "manual" THEN "r" ELSE "c"
    /\ log' = ""
    /\ UNCHANGED <<mode, clock, current_time, qr_codes, data, center,
                   found_target_qr, found_center_qr,
                   current_center_pixel, center_pixel, is_center_set,
                   pixels_per_mm, position_history, last_movement_time,
                   status,
                   displacement>>

\* Variant: ResetCenter that leaves the stored samples in place.
KeyRKeepsHistory ==
    /\ pc = "key"
    /\ mode = "dual"
    /\ pc' = "frame"
    /\ key' = "r"
    /\ center_pixel' = None
    /\ is_center_set' = FALSE
    /\ last_movement_time' = None
    /\ log' = "Center reset"
    /\ UNCHANGED <<mode, clock, current_time, qr_codes, data, center,
                   found_target_qr, found_center_qr, position_history,
                   current_center_pixel, pixels_per_mm, status,
                   displacement>>

\* 'r' in qr_tracker.py: ResetCenter.
KeyR ==
    /\ pc = "key"
    /\ mode = "dual"
    /\ pc' = "frame"
    /\ key' = "r"
    /\ center_pixel' = None
    /\ is_center_set' = FALSE
    /\ position_history' = <<>>
    /\ last_movement_time' = None
    /\ log' = "Center reset"
    /\ UNCHANGED <<mode, clock, current_time, qr_codes, data, center,
                   found_target_qr, found_center_qr,
                   current_center_pixel, pixels_per_mm, status,
                   displacement>>

Next ==
    \/ ReadFrame
    \/ HandleCenterQR
    \/ HandleTargetQR
    \/ KeyNone
    \/ KeyC
    \/ KeyR
    \/ KeyOther

Spec == Init /\ [][Next]_vars

\* The manual loop right after an accepted SetCenter: the frame showed the
\* target at p with a positive pixel width, 'c' was pressed, and the clock
\* reading stored by SetCenter is taken as the origin of time.
InitFine ==
    /\ mode = "manual"
    /\ pc = "frame"
    /\ clock = 0
    /\ current_time = 0
    /\ qr_codes = <<>>
    /\ data = TARGET_QR_DATA
    /\ key = "c"
    /\ found_target_qr = TRUE
    /\ found_center_qr = FALSE
    /\ \E p \in TargetPositions :
          /\ center = p
          /\ current_center_pixel = p
          /\ center_pixel = p
    /\ is_center_set = TRUE
    /\ pixels_per_mm = Calibrate(None, 381)
    /\ position_history = <<>>
    /\ last_movement_time = <<0>>
    /\ status = None
    /\ log = "Center set"
    /\ displacement = None

NextFine ==
    \/ ReadFrameFine
    \/ HandleTargetQRFine
    \/ KeyNone

\* The manual loop after SetCenter, on a finer time grid and a shorter
\* horizon, without further commands.
SpecFine == InitFine /\ [][NextFine]_vars

\* update_position_history called directly, with any timestamp at all: the
\* timestamps of successive calls need not be ordered.
AnyTimes == {0, 5, 35, 40}

InitAny ==
    /\ Init
    /\ mode = "manual"

CallUpdate ==
    /\ \E p \in TargetPositions, t \in AnyTimes :
          LET r == update_position_history(position_history,
                       last_movement_time, pixels_per_mm, p, t)
          IN  /\ Len(r.hist) <= MaxAnyHist
              /\ current_center_pixel' = p
              /\ current_time' = t
              /\ position_history' = r.hist
              /\ last_movement_time' = r.lmt
    /\ UNCHANGED <<mode, pc, clock, qr_codes, data, center, key,
                   found_target_qr, found_center_qr, center_pixel,
                   is_center_set, pixels_per_mm, status, log,
                   displacement>>

\* The calibration step alone, so that both branches of the movement test
\* are exercised by the direct calls.
CallCalibrate ==
    /\ \E w \in Widths : pixels_per_mm' = Calibrate(pixels_per_mm, w)
    /\ UNCHANGED <<mode, pc, clock, current_time, qr_codes, data, center,
                   key, found_target_qr, found_center_qr,
                   current_center_pixel, center_pixel, is_center_set,
                   position_history, last_movement_time, status, log,
                   displacement>>

NextAny ==
    \/ CallUpdate
    \/ CallCalibrate

SpecAny == InitAny /\ [][NextAny]_vars

\* calculate_displacement and is_qr_centered called directly, for every
\* combination of the globals they read.  (10,24) is 26 pixels from (0,0).
CalcPositions == {<<0, 0>>, <<10, 24>>, <<15, 20>>, <<30, 40>>}

CalcWidths == {200, 381}

\* The values of pixels_per_mm: unset, zero, or a calibration.
CalcScales ==
    {None, <<0, KNOWN_QR_CODE_WIDTH_CM>>}
        \cup {Calibrate(None, w) : w \in CalcWidths}

\* The globals the two functions read, and the argument.
CalcGlobals ==
    /\ current_center_pixel \in CalcPositions
    /\ \/ center_pixel = None /\ is_center_set = FALSE
       \/ center_pixel \in CalcPositions /\ is_center_set = TRUE
    /\ pixels_per_mm \in CalcScales

InitCalc ==
    /\ mode = "dual"
    /\ pc = "args"
    /\ clock = 0
    /\ current_time = 0
    /\ qr_codes = <<>>
    /\ data = ""
    /\ center = None
    /\ key = ""
    /\ found_target_qr = FALSE
    /\ found_center_qr = FALSE
    /\ CalcGlobals
    /\ position_history = <<>>
    /\ last_movement_time = None
    /\ status = None
    /\ log = ""
    /\ displacement = None

\* total_dist_mm, dist_x_mm, dist_y_mm = calculate_displacement(...)
CallDisplacement ==
    /\ pc = "args"
    /\ pc' = "returned"
    /\ displacement' = <<calculate_displacement(current_center_pixel,
                            center_pixel, is_center_set, pixels_per_mm)>>
    /\ UNCHANGED <<mode, clock, current_time, qr_codes, data, center, key,
                   found_target_qr, found_center_qr, current_center_pixel,
                   center_pixel, is_center_set, pixels_per_mm,
                   position_history, last_movement_time, status, log>>

\* is_still = is_qr_still(current_time);
\* is_centered = is_qr_centered(total_dist_mm)
CallCentered ==
    /\ pc = "returned"
    /\ pc' = "judged"
    /\ status' = <<[still |-> is_qr_still(current_time, last_movement_time),
                    centered |->
                        is_qr_centered(displacement[1].total_sq)]>>
    /\ UNCHANGED <<mode, clock, current_time, qr_codes, data, center, key,
                   found_target_qr, found_center_qr, current_center_pixel,
                   center_pixel, is_center_set, pixels_per_mm,
                   position_history, last_movement_time, log,
                   displacement>>

\* The next call, with other globals and another argument.
NextArgs ==
    /\ pc = "judged"
    /\ pc' = "args"
    /\ current_center_pixel' \in CalcPositions
    /\ \/ center_pixel' = None /\ is_center_set' = FALSE
       \/ center_pixel' \in CalcPositions /\ is_center_set' = TRUE
    /\ pixels_per_mm' \in CalcScales
    /\ status' = None
    /\ displacement' = None
    /\ UNCHANGED <<mode, clock, current_time, qr_codes, data, center, key,
                   found_target_qr, found_center_qr, position_history,
                   last_movement_time, log>>

NextCalc ==
    \/ CallDisplacement
    \/ CallCentered
    \/ NextArgs

SpecCalc == InitCalc /\ [][NextCalc]_vars

\* ------------------------------------------------------- shared predicates
\* The step about to be taken processes the center / the target marker.
CenterStep == pc = "loop" /\ Head(qr_codes).data = CENTER_QR_DATA

TargetStep == pc = "loop" /\ Head(qr_codes).data = TARGET_QR_DATA

\* The marker the step processes.
Obs == Head(qr_codes).center

\* The observed center marker is more than 10 px from the stored reference,
\* or there is no stored reference.
BeyondTenPixels ==
    \/ ~is_center_set
    \/ Sq(Obs[1] - center_pixel[1]) + Sq(Obs[2] - center_pixel[2]) > 100

Age(s) == current_time - s.ts

AllWithinRetention ==
    \A i \in 1..Len(position_history) : Age(position_history[i]) <= 30

TimestampsOrdered ==
    \A i \in 1..Len(position_history) - 1 :
        position_history[i].ts <= position_history[i + 1].ts

\* ---------------------------------------------------------------- C1
\* C1: dual-marker mode, reference set: a step of frame processing that is
\* not the processing of a center marker more than 10 px away from the stored
\* reference leaves the reference as it is, and the processing of a center
\* marker within 10 px (boundary included) neither clears PositionHistory nor
\* rewrites LastMovementTimestamp.
C1_ReferenceStable ==
    [][(/\ mode = "dual"
        /\ pc \in {"frame", "loop"}
        /\ is_center_set
        /\ ~(CenterStep /\ BeyondTenPixels))
       => /\ center_pixel' = center_pixel
          /\ is_center_set'
          /\ (CenterStep =>
                 /\ position_history' = position_history
                 /\ last_movement_time' = last_movement_time
                 /\ log' = "")]_vars

\* A center marker exactly 10 px from the reference has just been processed,
\* with samples in the history, and nothing was reset.
C1_Witness ==
    /\ data = CENTER_QR_DATA
    /\ is_center_set
    /\ Dist2(center, center_pixel) = 100
    /\ position_history # <<>>
    /\ log = ""

\* ---------------------------------------------------------------- C2
\* C2: dual-marker mode: processing a center marker while the reference is
\* unset or more than 10 px (strictly) away overwrites the reference with the
\* observed position, sets isSet, empties PositionHistory and sets
\* LastMovementTimestamp to a clock reading taken at that moment.
C2_Reacquire ==
    [][(CenterStep /\ BeyondTenPixels)
       => /\ center_pixel' = Obs
          /\ is_center_set'
          /\ position_history' = <<>>
          /\ last_movement_time' = <<clock'>>
          /\ clock' >= current_time]_vars

\* A re-acquisition that emptied a history holding this frame's target sample.
C2_Witness ==
    /\ log = "Center automatically set"
    /\ data = CENTER_QR_DATA
    /\ found_target_qr
    /\ center_pixel = center
    /\ position_history = <<>>
    /\ last_movement_time = <<clock>>

\* ---------------------------------------------------------------- C3
\* C3: every assignment to LastMovementTimestamp made while it is set stores
\* a value not smaller than the value it replaces.
C3_LmtMonotone ==
    [][(last_movement_time # None /\ last_movement_time' # None)
       => last_movement_time'[1] >= last_movement_time[1]]_vars

\* ---------------------------------------------------------------- C4
\* No stored sample is later than LastMovementTimestamp and the sample now
\* processed comes more than 0.5 + 1.0 after it.
NoSampleSinceMovement ==
    /\ TargetStep
    /\ is_center_set
    /\ last_movement_time # None
    /\ current_time - last_movement_time[1] > 15
    /\ \A i \in 1..Len(position_history) :
          position_history[i].ts <= last_movement_time[1]

\* C4 as stated: whenever no target sample arrived within 1.5 after
\* LastMovementTimestamp, the next status evaluation reports STILL, also when
\* PositionHistory is empty.
C4_StillAfterSilence ==
    [][NoSampleSinceMovement
       => (status' # None /\ status'[1].still)]_vars

\* C4 amended: the same, for a PositionHistory that is not empty when the
\* sample is processed.
C4_StillAfterSilenceNonEmpty ==
    [][(NoSampleSinceMovement /\ position_history # <<>>)
       => (status' # None /\ status'[1].still)]_vars

\* STILL and Not Centered reported for a sample that follows the previous
\* one, the time of the last movement, by more than 1.5.
C4_Witness ==
    /\ data = TARGET_QR_DATA
    /\ status # None
    /\ status[1].still
    /\ ~status[1].centered
    /\ Len(position_history) >= 2
    /\ last_movement_time = <<position_history[Len(position_history) - 1].ts>>
    /\ current_time - last_movement_time[1] > 15
    /\ position_history[Len(position_history)].ts = current_time

\* ---------------------------------------------------------------- C5
\* C5 as stated: after every call of update_position_history, for any
\* sequence of timestamps, every stored sample satisfies now - ts <= 3.0.
C5_RetentionAnyTimestamps == AllWithinRetention

\* C5 amended: after every call that leaves the stored timestamps in
\* non-decreasing order, every stored sample satisfies now - ts <= 3.0.
C5_RetentionOrderedTimestamps == TimestampsOrdered => AllWithinRetention

\* An ordered history whose oldest sample is exactly 3.0 old.
C5_Witness ==
    /\ TimestampsOrdered
    /\ Len(position_history) >= 2
    /\ Age(position_history[1]) = 30
    /\ position_history[Len(position_history)].ts = current_time

\* ---------------------------------------------------------------- C6
\* C6 as stated: at the end of every frame every stored sample satisfies
\* now - ts <= 3.0, now being the frame's timestamp.
C6_RetentionEveryFrame == pc = "key" => AllWithinRetention

\* C6 amended: at the end of every frame in which the target marker was
\* detected, every stored sample satisfies now - ts <= 3.0.
C6_RetentionTargetFrames ==
    (pc = "key" /\ found_target_qr) => AllWithinRetention

\* The end of a target frame whose history keeps a sample exactly 3.0 old.
C6_Witness ==
    /\ pc = "key"
    /\ found_target_qr
    /\ Len(position_history) >= 2
    /\ Age(position_history[1]) = 30

\* ---------------------------------------------------------------- C7
NoTargetIn(codes) ==
    \A i \in 1..Len(codes) : codes[i].data # TARGET_QR_DATA

\* A step of the processing of a frame in which no target marker is detected.
NoTargetFrameStep ==
    \/ pc = "frame" /\ NoTargetIn(qr_codes')
    \/ pc = "loop" /\ ~found_target_qr /\ NoTargetIn(qr_codes)

\* C7 as stated: a frame without target marker leaves calibration, reference
\* and PositionHistory unchanged and emits no status, also when only the
\* center marker is detected.
C7_NoTargetNoChange ==
    [][NoTargetFrameStep
       => /\ pixels_per_mm' = pixels_per_mm
          /\ center_pixel' = center_pixel
          /\ is_center_set' = is_center_set
          /\ position_history' = position_history
          /\ status' = None]_vars

\* C7 amended: a frame without target marker leaves calibration unchanged and
\* emits no status; it leaves reference and PositionHistory unchanged too,
\* unless (dual-marker mode) the center marker is detected while the
\* reference is unset or more than 10 px away.
C7_NoTargetNoChangeButReacquire ==
    [][NoTargetFrameStep
       => /\ pixels_per_mm' = pixels_per_mm
          /\ status' = None
          /\ (~(CenterStep /\ BeyondTenPixels) =>
                 /\ center_pixel' = center_pixel
                 /\ is_center_set' = is_center_set
                 /\ position_history' = position_history)]_vars

\* The end of a frame showing only the center marker, 10 px or less from the
\* reference but not on it, with calibration and history kept.
C7_Witness ==
    /\ pc = "key"
    /\ ~found_target_qr
    /\ found_center_qr
    /\ center # center_pixel
    /\ log = ""
    /\ pixels_per_mm # None
    /\ position_history # <<>>

\* ---------------------------------------------------------------- C8
\* C8: at the end of every dual-marker frame in which both markers are
\* detected, a status has been emitted for the target, its alignment is the
\* one computed against the reference as it stands after the frame, and the
\* target's sample is in PositionHistory (any reset came before it).
C8_ReferenceBeforeTarget ==
    (mode = "dual" /\ pc = "key" /\ found_target_qr /\ found_center_qr)
    => /\ status # None
       /\ status[1].centered =
            is_qr_centered(calculate_displacement(current_center_pixel,
                center_pixel, is_center_set, pixels_per_mm).total_sq)
       /\ position_history # <<>>
       /\ position_history[Len(position_history)] =
            [pos |-> current_center_pixel, ts |-> current_time]

\* ---------------------------------------------------------------- C9
\* Every stored sample but the first lies within 2.5 mm of the mean of the
\* stored samples of the 0.5 before it (if there are any), under the
\* current calibration.
StationaryRun ==
    \A i \in 2..Len(position_history) :
        LET cur  == position_history[i]
            prev == SelectSeq(SubSeq(position_history, 1, i - 1),
                              LAMBDA s : cur.ts - s.ts <= 5)
            n    == Len(prev)
            D    == Sq(n * cur.pos[1] - SumX(prev))
                    + Sq(n * cur.pos[2] - SumY(prev))
        IN  n > 0 =>
              D <= (Sq(25 * n * pixels_per_mm[1]) \div Sq(pixels_per_mm[2]))

\* C9: reference and calibration set, the history started empty and holds a
\* stationary run: the status emitted for the sample at time t is STILL iff
\* t - (time of the first sample) >= 1.0.  (Within MaxFineTime no sample is
\* old enough to be evicted, so position_history[1] is the first sample.)
C9_StillIffOneSecond ==
    (/\ pc = "key"
     /\ found_target_qr
     /\ status # None
     /\ pixels_per_mm # None
     /\ StationaryRun)
    => (status[1].still <=> current_time - position_history[1].ts >= 10)

\* STILL for the fourth sample of a stationary run, 1.2 after the first,
\* every sample 0.5 or less after the one before and not all at one place.
C9_Witness ==
    /\ pc = "key"
    /\ found_target_qr
    /\ status # None
    /\ status[1].still
    /\ pixels_per_mm # None
    /\ StationaryRun
    /\ Len(position_history) = 4
    /\ current_time - position_history[1].ts = 12
    /\ \A i \in 1..3 :
          position_history[i + 1].ts - position_history[i].ts <= 5
    /\ \E i \in 1..3 : position_history[i + 1].pos # position_history[i].pos

\* ---------------------------------------------------------------- C10
\* C10: manual mode: SetCenter after a frame without target marker changes
\* neither reference, isSet, calibration, PositionHistory nor
\* LastMovementTimestamp, and prints the warning.
C10_SetCenterRejected ==
    [][(pc = "key" /\ mode = "manual" /\ key' = "c" /\ ~found_target_qr)
       => /\ center_pixel' = center_pixel
          /\ is_center_set' = is_center_set
          /\ pixels_per_mm' = pixels_per_mm
          /\ position_history' = position_history
          /\ last_movement_time' = last_movement_time
          /\ log' = "Warning: Cannot set center"]_vars

\* A rejected SetCenter with reference, calibration and samples in place.
C10_Witness ==
    /\ key = "c"
    /\ log = "Warning: Cannot set center"
    /\ ~found_target_qr
    /\ is_center_set
    /\ pixels_per_mm # None
    /\ position_history # <<>>
    /\ last_movement_time # None

C12_CalibrationKept ==
    [][/\ pixels_per_mm # None
          => (pixels_per_mm' # None /\ pixels_per_mm'[1] > 0)
       /\ pixels_per_mm' # None => pixels_per_mm'[1] > 0
       /\ pixels_per_mm' # pixels_per_mm
          => (TargetStep /\ Head(qr_codes).pixel_width > 0)
       /\ (TargetStep /\ Head(qr_codes).pixel_width = 0)
          => pixels_per_mm' = pixels_per_mm
       /\ (pc = "key" \/ CenterStep \/ pc = "frame")
          => pixels_per_mm' = pixels_per_mm]_vars

\* The calibration still in place after a ResetCenter pressed in a frame
\* that showed the target.
C12_Witness ==
    /\ mode = "dual"
    /\ key = "r"
    /\ found_target_qr
    /\ data = TARGET_QR_DATA
    /\ status = None
    /\ ~is_center_set
    /\ pixels_per_mm # None
    /\ pixels_per_mm[1] > 0

\* ---------------------------------------------------------------- C13
\* C13: calculate_displacement returns (0, 0, 0) for every current position
\* whenever the reference is unset, or the calibration scale is unset, or
\* the scale is zero, and it modifies no tracking state.
C13_ZeroDisplacement ==
    [][(pc = "args" /\ pc' = "returned")
       => /\ (~is_center_set \/ pixels_per_mm = None
                  \/ pixels_per_mm[1] = 0)
             => /\ displacement'[1].total_sq[1] = 0
                /\ displacement'[1].dx[1] = 0
                /\ displacement'[1].dy[1] = 0
          /\ UNCHANGED <<center_pixel, is_center_set, pixels_per_mm,
                         position_history, last_movement_time,
                         current_center_pixel>>]_vars

\* A zero displacement returned for a position 50 pixels off the reference,
\* the scale being unset.
C13_Witness ==
    /\ pc = "returned"
    /\ is_center_set
    /\ pixels_per_mm = None
    /\ Dist2(current_center_pixel, center_pixel) = 2500
    /\ displacement[1].total_sq[1] = 0
    /\ displacement[1].dx[1] = 0
    /\ displacement[1].dy[1] = 0

\* ---------------------------------------------------------------- C14
\* C14: a status is emitted in a frame only if the target marker is detected
\* in that frame and the reference is set at the moment the target is
\* processed; a target processed while the reference is unset yields no
\* status, and no status exists before a marker has been observed.
C14_StatusNeedsReference ==
    [][/\ (status' # None /\ status = None)
          => (TargetStep /\ is_center_set)
       /\ (TargetStep /\ ~is_center_set) => status' = None
       /\ status' # None => found_target_qr'
       /\ (position_history = <<>> /\ ~is_center_set) => status' = None]_vars

\* Dual-marker mode, the target listed before the center marker while the
\* reference was unset: the frame ends with the reference set, the target
\* seen, and no status.
C14_Witness ==
    /\ mode = "dual"
    /\ pc = "key"
    /\ found_target_qr
    /\ found_center_qr
    /\ is_center_set
    /\ status = None

\* ---------------------------------------------------------------- C15
\* C15: with the calibration w / 38.1 mm for a pixel width w > 0 and the
\* reference set, the status is Centered iff
\* (pixel distance between target and reference) * 38.1 <= 2.5 * w, the
\* boundary included (compared here on the squares, in tenths of a
\* millimetre); so w = 200 and a displacement of 26 pixels give Not Centered.
C15_CenteredIffWithinThreshold ==
    (/\ pc = "judged"
     /\ is_center_set
     /\ pixels_per_mm # None
     /\ pixels_per_mm[1] > 0)
    => /\ status[1].centered
          <=> (Dist2(current_center_pixel, center_pixel) * Sq(381)
                  <= Sq(25) * Sq(pixels_per_mm[1]))
       /\ (/\ pixels_per_mm[1] = 200
           /\ Dist2(current_center_pixel, center_pixel) = Sq(26))
          => ~status[1].centered

\* Centered at exactly 2.5 mm: 25 pixels at w = 381.
C15_Witness ==
    /\ pc = "judged"
    /\ is_center_set
    /\ pixels_per_mm # None
    /\ pixels_per_mm[1] = 381
    /\ Dist2(current_center_pixel, center_pixel) = Sq(25)
    /\ status[1].centered

\* Not Centered for 26 pixels at w = 200.
C15_ScenarioA ==
    /\ pc = "judged"
    /\ is_center_set
    /\ pixels_per_mm # None
    /\ pixels_per_mm[1] = 200
    /\ Dist2(current_center_pixel, center_pixel) = Sq(26)
    /\ ~status[1].centered

\* ---------------------------------------------------------------- C17
\* C17: a target sample processed while PositionHistory is empty is recorded
\* as the only entry, LastMovementTimestamp becomes that frame's timestamp,
\* and a status emitted by that processing says MOVING.
C17_FirstSampleMoves ==
    [][(TargetStep /\ position_history = <<>>)
       => /\ position_history'
                = <<[pos |-> Head(qr_codes).center, ts |-> current_time]>>
          /\ last_movement_time' = <<current_time>>
          /\ status' # None => ~status'[1].still]_vars

\* Dual-marker mode: the re-acquisition emptied the history and read the
\* clock after the frame's timestamp was taken; the target of the same
\* frame was then recorded as first sample and reported MOVING.
C17_Witness ==
    /\ mode = "dual"
    /\ pc = "key"
    /\ found_center_qr
    /\ found_target_qr
    /\ clock > current_time
    /\ Len(position_history) = 1
    /\ position_history[1] = [pos |-> current_center_pixel,
                              ts |-> current_time]
    /\ last_movement_time = <<current_time>>
    /\ status # None
    /\ ~status[1].still

\* ---------------------------------------------------------------- C18
\* The stored samples of age <= 0.5 at the frame's timestamp.
StoredWithinWindow(h) == SelectSeq(h, LAMBDA s : current_time - s.ts <= 5)

\* n^2 times the squared pixel distance between p and the mean of rec.
MeanDist2(rec, p) ==
    Sq(Len(rec) * p[1] - SumX(rec)) + Sq(Len(rec) * p[2] - SumY(rec))

\* C18: a target sample processed with the calibration w / 38.1 set and at
\* least one stored sample of age <= 0.5 (boundary included) sets
\* LastMovementTimestamp to the frame's timestamp iff its pixel distance to
\* the mean of exactly those stored samples is strictly greater than
\* 2.5 * w / 38.1 (on squares: n^2 d^2 > (25 n w)^2 / 381^2); at the
\* threshold or below, LastMovementTimestamp is unchanged.
C18_MovementIffBeyondThreshold ==
    [][(/\ TargetStep
        /\ pixels_per_mm' # None
        /\ StoredWithinWindow(position_history) # <<>>)
       => LET rec == StoredWithinWindow(position_history)
              beyond == MeanDist2(rec, Head(qr_codes).center)
                          > (Sq(25 * Len(rec) * pixels_per_mm'[1])
                                \div Sq(381))
          IN  /\ last_movement_time' = <<current_time>> <=> beyond
              /\ ~beyond => last_movement_time' = last_movement_time]_vars

\* A sample exactly 2.5 mm from the mean of two stored samples of the
\* window, one of them of age exactly 0.5, that lie at different places:
\* LastMovementTimestamp stays at the time of the second sample.
C18_Witness ==
    /\ pc = "key"
    /\ found_target_qr
    /\ pixels_per_mm # None
    /\ Len(position_history) = 3
    /\ current_time - position_history[1].ts = 5
    /\ position_history[1].pos # position_history[2].pos
    /\ position_history[3].ts = current_time
    /\ MeanDist2(SubSeq(position_history, 1, 2), position_history[3].pos)
          = Sq(25 * 2)
    /\ last_movement_time = <<position_history[2].ts>>
    /\ position_history[2].ts < current_time

\* ---------------------------------------------------------------- C19
\* C19: every call of update_position_history leaves the current sample as
\* the newest entry of PositionHistory; with the calibration unset and a
\* non-empty history the call records the sample and leaves
\* LastMovementTimestamp unchanged.
C19_SampleAlwaysRecorded ==
    [][TargetStep
       => /\ position_history' # <<>>
          /\ position_history'[Len(position_history')]
                = [pos |-> Head(qr_codes).center, ts |-> current_time]
          /\ (pixels_per_mm' = None /\ position_history # <<>>)
             => last_movement_time' = last_movement_time]_vars

\* Two samples 50 pixels apart and 0.5 apart in time, recorded without
\* calibration: LastMovementTimestamp is still the time of the first one.
C19_Witness ==
    /\ pc = "key"
    /\ found_target_qr
    /\ pixels_per_mm = None
    /\ Len(position_history) = 2
    /\ position_history[2] = [pos |-> current_center_pixel,
                              ts |-> current_time]
    /\ position_history[2].ts - position_history[1].ts = 5
    /\ Dist2(position_history[1].pos, position_history[2].pos) = 2500
    /\ last_movement_time = <<position_history[1].ts>>

\* ---------------------------------------------------------------- C20
\* C20: manual mode: the reference changes only through an accepted
\* SetCenter; SetCenter after a frame that showed the target sets the
\* reference to that frame's target center, sets isSet, empties
\* PositionHistory, sets LastMovementTimestamp to the clock reading of the
\* command and leaves the calibration unchanged.  Afterwards
\* LastMovementTimestamp never goes back and a target is reported STILL
\* only at a frame timestamp 1.0 or more after it, so no STILL status is
\* emitted until 1.0 after the command.
C20_ManualSetCenter ==
    [][mode = "manual"
       => /\ (center_pixel' # center_pixel \/ is_center_set' # is_center_set)
             => (pc = "key" /\ key' = "c" /\ found_target_qr)
          /\ (pc = "key" /\ key' = "c" /\ found_target_qr)
             => /\ center_pixel' = center
                /\ center_pixel' = current_center_pixel
                /\ data = TARGET_QR_DATA
                /\ is_center_set'
                /\ position_history' = <<>>
                /\ last_movement_time' = <<clock'>>
                /\ clock' >= current_time
                /\ pixels_per_mm' = pixels_per_mm
          /\ (is_center_set /\ last_movement_time # None)
             => /\ last_movement_time' # None
                /\ last_movement_time'[1] >= last_movement_time[1]
          /\ (TargetStep /\ status' # None /\ status'[1].still)
             => current_time - last_movement_time'[1] >= 10]_vars

\* An accepted SetCenter that replaced an earlier reference by the center
\* of the target seen in the frame, the clock read after the frame's
\* timestamp.
C20_Witness ==
    /\ mode = "manual"
    /\ key = "c"
    /\ log = "Center set"
    /\ found_target_qr
    /\ status # None
    /\ ~status[1].centered
    /\ is_center_set
    /\ center_pixel = current_center_pixel
    /\ position_history = <<>>
    /\ last_movement_time = <<clock>>
    /\ clock > current_time
    /\ pixels_per_mm # None

\* C20, the consequence taken alone, for the loop started by an accepted
\* SetCenter at clock reading 0: a STILL status is emitted only at a frame
\* timestamp of 1.0 or more.
C20_NoStillForOneSecond ==
    (status # None /\ status[1].still) => current_time >= 10

\* ---------------------------------------------------------------- C21
\* C21: in every reachable state of either loop a non-empty PositionHistory
\* implies that LastMovementTimestamp is set; and every status evaluation
\* sees a LastMovementTimestamp that is set and not later than the frame's
\* timestamp, so is_qr_still never answers from its `is None` branch when a
\* status is emitted.
C21_HistoryImpliesTimestamp ==
    /\ [](position_history # <<>> => last_movement_time # None)
    /\ [][(TargetStep /\ status' # None)
            => /\ last_movement_time' # None
               /\ last_movement_time'[1] <= current_time]_vars

\* A status emitted for the second sample of a history, the last movement
\* dating from an earlier frame.
C21_Witness ==
    /\ pc = "key"
    /\ found_target_qr
    /\ status # None
    /\ Len(position_history) = 2
    /\ position_history[2].ts = current_time
    /\ last_movement_time # None
    /\ last_movement_time[1] < current_time

\* ---------------------------------------------------------------- C22
\* C22: a target sample processed while PositionHistory is non-empty but
\* holds no sample of age <= 0.5 never changes LastMovementTimestamp,
\* however far the new position is from the stored ones; if the reference
\* is set and the frame's timestamp is 1.0 or more after
\* LastMovementTimestamp, the status emitted for that sample is STILL.
C22_GapKeepsTimestamp ==
    [][(/\ TargetStep
        /\ position_history # <<>>
        /\ StoredWithinWindow(position_history) = <<>>)
       => /\ last_movement_time' = last_movement_time
          /\ (/\ is_center_set
              /\ current_time - last_movement_time[1] >= 10)
             => (status' # None /\ status'[1].still)]_vars

\* The target reappears 1.0 after its previous sample, 50 pixels (5 mm at
\* w = 381) away from it, and is reported STILL; LastMovementTimestamp is
\* still the time of the previous sample.
C22_Witness ==
    /\ pc = "key"
    /\ found_target_qr
    /\ pixels_per_mm # None
    /\ pixels_per_mm[1] = 381
    /\ Len(position_history) = 2
    /\ position_history[2] = [pos |-> current_center_pixel,
                              ts |-> current_time]
    /\ position_history[2].ts - position_history[1].ts = 10
    /\ Dist2(position_history[1].pos, position_history[2].pos) = 2500
    /\ last_movement_time = <<position_history[1].ts>>
    /\ status # None
    /\ status[1].still
====
